---- MODULE Spec2Model ----
(***************************************************************************)
(* State-machine model of HPC_phi_6.py: the six mesh simulations of        *)
(* uncoupled SASLIF neurons (a trace-preserving function and its _ARC      *)
(* twin for the forcing, neurodynamic and stochastic meshes), the phase    *)
(* analysis and the RMQ computation.                                       *)
(*                                                                         *)
(* Arithmetic.  The program computes in float32/float64; the model         *)
(* computes in integers of a fixed-point unit: a quotient is truncated     *)
(* toward zero (Quot), a square root is the integer square root (ISqrt),   *)
(* and the sine is sampled at quarter turns (Sin), where it is exactly     *)
(* 0, 1, 0, -1.  Frequencies are therefore in quarter turns per step.      *)
(***************************************************************************)
EXTENDS Integers, Sequences, FiniteSets, TLC

VARIABLES cfg, sim, sim_ARC, num_calls, analysis, quantifier, manager, rerun

vars == <<cfg, sim, sim_ARC, num_calls, analysis, quantifier, manager, rerun>>

(***************************************************************************)
(* Bounds of the model.                                                    *)
(***************************************************************************)
\* simulation_duration of every configuration (num_timesteps with dt = 1)
MaxSteps == 6
\* capacity of a cell's spike log; the program uses 5000 (stack_height)
stack_height == 2
\* largest refractory_period_duration of a configuration
MaxRefractory == 1
\* length of the reference signal handed to the phase analysis
MaxSamples == 5
\* largest number of cycles of a block handed directly to the RMQ assessment
MaxCycles == 3
\* largest number of calls of add_parameter_subset on a pipeline manager
MaxSubsets == 3
\* largest number of phases handed to central_tendency_selector on its own
MaxData == 3
\* largest number of spikes of a cell in a log handed to the phase analysis
\* on its own
MaxSpikes == 2

\* the standard normal deviates a call of the random generator may return
Draws == {-1, 1}

(***************************************************************************)
(* Arithmetic helpers.                                                     *)
(***************************************************************************)
Abs(a) == IF a < 0 THEN -a ELSE a

\* a / b of the float arithmetic, truncated toward zero (b > 0)
Quot(a, b) == IF a >= 0 THEN a \div b ELSE -((-a) \div b)

\* math.sqrt on a non-negative integer, rounded down
ISqrt(n) == CHOOSE k \in 0..n : k * k <= n /\ (k + 1) * (k + 1) > n

\* np.sin at k quarter turns
Sin(k) == <<0, 1, 0, -1>>[(k % 4) + 1]

(***************************************************************************)
(* numba_ufuncs: the element-wise helpers the simulations import.          *)
(***************************************************************************)
scalar_add(a, b) == a + b

hadamard(a, b) == a * b

condit_add(x, cond, y) == IF cond THEN x + y ELSE x

condit_assign_bool(x, cond, v) == IF cond THEN v ELSE x

condit_assign_num(x, cond, v) == IF cond THEN v ELSE x

integer_add(a, b) == a + b

\* the index of the top of a column: z (initialised to 1) times its height
stack_topography_flatten(z, height) == z * height

\* one Euler-Maruyama step of the mean-reverting noise
ornstein_uhlenbeck(xi, mu, tau, dt, weiner_coefficient, random_number) ==
    xi + dt * Quot(mu - xi, tau) + weiner_coefficient * random_number

\* one forward-Euler step of the leaky voltage, only where cond holds
subthresh_SASLIF_integrate(V, cond, dt, rest_V, forcing, W, tau, xi) ==
    IF cond THEN V + dt * (Quot(rest_V - V, tau) + forcing - W + xi) ELSE V

\* a normal deviate of mean loc and deviation scale, from the deviate z
heterogenous_normal(loc, scale, z) == loc + scale * z

(***************************************************************************)
(* Configurations.  A configuration is the argument list of one of the     *)
(* simulation functions; cfg.variant names the mesh it sweeps.  axis_1 and *)
(* axis_2 are the two parameter subsets, and they carry, by variant:       *)
(*   forcing       theta amplitude, interference amplitude                 *)
(*   neurodynamic  adaptation response constant, adaptation decay constant *)
(*   stochastic    OU mean, OU volatility                                  *)
(* A scalar the variant's function does not take is 0.                     *)
(***************************************************************************)
Common ==
    [simulation_duration : {MaxSteps}, dt : {1},
     neuron_time_constant : {2}, rest_V : {0},
     refractory_period_duration : 0..MaxRefractory,
     adaptation_time_constant : {2}, OU_time_constant : {2},
     theta_frequency : {1}, interference_frequency : {3},
     axis_1 : {<<0>>, <<2>>}, axis_2 : {<<0, 1>>}]

\* neuron_threshold and spike_V: rest_V < neuron_threshold <= spike_V, and
\* a spike voltage below the threshold
Levels == {<<1, 2>>, <<1, 0>>}

Merge(f, g) == [k \in (DOMAIN f) \cup (DOMAIN g) |->
                  IF k \in DOMAIN f THEN f[k] ELSE g[k]]

Scalars(variant) ==
    CASE variant = "forcing" ->
           [variant : {variant}, theta_amplitude : {0}, interference_amplitude : {0},
            adaptation_response_constant : {1}, adaptation_decay_constant : {1},
            OU_sigma : {0, 1}, OU_mu : {0, 2}]
      [] variant = "neurodynamic" ->
           [variant : {variant}, theta_amplitude : {0, 1}, interference_amplitude : {0},
            adaptation_response_constant : {0}, adaptation_decay_constant : {0},
            OU_sigma : {0, 1}, OU_mu : {0, 2}]
      [] variant = "stochastic" ->
           [variant : {variant}, theta_amplitude : {0, 1}, interference_amplitude : {0},
            adaptation_response_constant : {1}, adaptation_decay_constant : {1},
            OU_sigma : {0}, OU_mu : {0}]

Variants == {"forcing", "neurodynamic", "stochastic"}

\* the configurations with noise in every cell that the model covers
Noisy(k) ==
    /\ k.neuron_threshold <= k.spike_V
    /\ k.OU_mu = 0
    /\ k.axis_1 = <<2>>
    /\ k.variant = "neurodynamic" => k.theta_amplitude = 1

\* the configurations of the model
Configs ==
    {k \in {Merge(Merge(c, s), [neuron_threshold |-> l[1], spike_V |-> l[2]]) :
               c \in Common, s \in UNION {Scalars(v) : v \in Variants}, l \in Levels} :
        k.OU_sigma > 0 => Noisy(k)}

(***************************************************************************)
(* The mesh and the constants every simulation derives from its arguments. *)
(***************************************************************************)
subspace_1_size == Len(cfg.axis_1)

subspace_2_size == Len(cfg.axis_2)

\* cell (x, y) of the mesh is the flat index x * subspace_2_size + y, the
\* order of the C-contiguous arrays and of np.where
Cells == 0..(subspace_1_size * subspace_2_size - 1)

\* the slots of a cell's column of the spike log
Slots == 0..(stack_height - 1)

Row(c) == c \div subspace_2_size

Col(c) == c % subspace_2_size

\* np.transpose(np.array(np.meshgrid(axis_1, axis_2))): [x, y, 0] is
\* axis_1[x] and [x, y, 1] is axis_2[y]
ParameterMesh == [c \in Cells |-> <<cfg.axis_1[Row(c) + 1], cfg.axis_2[Col(c) + 1]>>]

num_timesteps == cfg.simulation_duration \div cfg.dt

refractory_period_length == cfg.refractory_period_duration \div cfg.dt

\* the value the forcing takes at a step in a cell
Forcing(c, step) ==
    IF cfg.variant = "forcing"
    THEN scalar_add(hadamard(ParameterMesh[c][1], Sin(cfg.theta_frequency * cfg.dt * step)),
                    hadamard(ParameterMesh[c][2], Sin(cfg.interference_frequency * cfg.dt * step)))
    ELSE cfg.theta_amplitude * Sin(cfg.theta_frequency * cfg.dt * step)
         + cfg.interference_amplitude * Sin(cfg.interference_frequency * cfg.dt * step)

\* the jump of the adaptation variable of a spiking cell
AdaptationJump(c) ==
    IF cfg.variant = "neurodynamic"
    THEN ParameterMesh[c][1] * cfg.dt
    ELSE cfg.dt * cfg.adaptation_response_constant

\* the decay of the adaptation variable W of a cell over one step
AdaptationDecay(c, W) ==
    IF cfg.variant = "neurodynamic"
    THEN Quot(hadamard(ParameterMesh[c][2] * (-cfg.dt), W), cfg.adaptation_time_constant)
    ELSE Quot((-cfg.dt) * cfg.adaptation_decay_constant * W, cfg.adaptation_time_constant)

\* the mean of the noise of a cell
NoiseMean(c) ==
    IF cfg.variant = "stochastic" THEN ParameterMesh[c][1] ELSE cfg.OU_mu

\* the volatility of a cell scaled by sqrt(dt * OU_time_constant)
weiner_coefficient(c) ==
    (IF cfg.variant = "stochastic" THEN ParameterMesh[c][2] ELSE cfg.OU_sigma)
    * ISqrt(cfg.dt * cfg.OU_time_constant)

\* the random number a cell receives from the deviate z of the generator
random_numbers(c, z) ==
    IF cfg.variant = "stochastic"
    THEN heterogenous_normal(ParameterMesh[c][1], 1, z)
    ELSE cfg.OU_mu + z

(***************************************************************************)
(* The state of one running simulation: the arrays of the function, the    *)
(* index of the loop iteration it runs next, and whether it is running,    *)
(* has returned or has failed.  Of the voltage array V[:, :, t] of a       *)
(* trace-preserving function the state keeps the slice last written: an    *)
(* iteration reads V[:, :, step - 1], writes V[:, :, step], and no slice   *)
(* is read or written again.                                               *)
(***************************************************************************)
\* subthreshold_matrix = V < neuron_threshold, for one cell
Subthreshold_inverted(V) == V > cfg.neuron_threshold

Subthreshold(V) == V < cfg.neuron_threshold

\* the refractory counter of a cell that recently fired, incremented
RefractoryIncrement_twice(refr, spiking) ==
    condit_add(refr, spiking /\ refr <= refractory_period_length, 2)

RefractoryIncrement(refr, spiking) ==
    condit_add(refr, spiking /\ refr <= refractory_period_length, 1)

\* the voltage of a cell after the two conditional assignments that follow
\* the integration: spike_V within the refractory period, rest_V after it
SpikeClamp_early(V, spiking, refr) ==
    condit_assign_num(
        condit_assign_num(V, spiking /\ refr < refractory_period_length, cfg.spike_V),
        spiking /\ refr >= refractory_period_length, cfg.rest_V)

SpikeClamp(V, spiking, refr) ==
    condit_assign_num(
        condit_assign_num(V, spiking /\ refr <= refractory_period_length, cfg.spike_V),
        spiking /\ refr > refractory_period_length, cfg.rest_V)

\* the arrays as the function leaves them before its loop
InitState(first_step) ==
    LET V == [c \in Cells |-> hadamard(1, cfg.rest_V)]
        subthreshold_matrix == [c \in Cells |-> Subthreshold(V[c])]
        spike_0 == [c \in Cells |-> condit_assign_bool(FALSE, ~subthreshold_matrix[c], TRUE)]
        spike_1 == [c \in Cells |-> condit_assign_bool(spike_0[c], subthreshold_matrix[c], FALSE)]
        refr_0 == [c \in Cells |-> RefractoryIncrement(0, spike_1[c])]
        refr_1 == [c \in Cells |->
                     condit_assign_num(refr_0[c], refr_0[c] > refractory_period_length, 0)]
    IN  [step |-> first_step,
         status |-> IF first_step < num_timesteps THEN "running" ELSE "returned",
         V |-> V,
         xi |-> [c \in Cells |-> 0],
         W |-> [c \in Cells |-> 0],
         spike_state_matrix |-> spike_1,
         refractory_period_matrix |-> refr_1,
         spike_stack |-> [c \in Cells |-> [k \in 0..(stack_height - 1) |-> 0]],
         stack_topography |-> [c \in Cells |-> 0]]

(***************************************************************************)
(* spike_stack[x, y, z] = step.  The compiled functions do not check the   *)
(* index.  An index z >= stack_height is outside the column; what the      *)
(* write does then depends on the build:                                   *)
(*   "unchecked"  the write goes to the address the index computes in the  *)
(*                C-contiguous array, which is slot z - stack_height of    *)
(*                the next cell, or memory outside the array after the     *)
(*                last cell (the array is then left as it was);            *)
(*   "fault"      the write is refused (bounds checking enabled, or the    *)
(*                address is not writable) and the function ends with an   *)
(*                error.                                                   *)
(***************************************************************************)
OutOfBounds == {"unchecked", "fault"}

\* the outcomes to consider in an iteration from state s: a write is out of
\* bounds only in a column that is already full
Outcomes(s) ==
    IF \E c \in Cells : s.stack_topography[c] >= stack_height
    THEN OutOfBounds
    ELSE {"unchecked"}

\* the array after the write at flat address c * stack_height + z
WriteFlat(spike_stack, c, z, step) ==
    LET flat == c * stack_height + z
        cc == flat \div stack_height
        zz == flat % stack_height
    IN  IF cc \in Cells
        THEN [spike_stack EXCEPT ![cc][zz] = step]
        ELSE spike_stack

\* one pass of the logging loop: the spike of cell c at this step
LogSpike(log, c, step, oob) ==
    LET z == stack_topography_flatten(1, log.stack_topography[c])
    IN  IF z >= stack_height /\ oob = "fault"
        THEN [log EXCEPT !.fault = TRUE]
        ELSE [log EXCEPT
                !.spike_stack = WriteFlat(log.spike_stack, c, z, step),
                !.stack_topography[c] = integer_add(log.stack_topography[c], 1)]

\* the logging loop over the cells np.where returned, in its order
RECURSIVE LogSpikes(_, _, _, _, _)
LogSpikes(log, newly, c, step, oob) ==
    IF c \notin Cells \/ log.fault
    THEN log
    ELSE LogSpikes(IF newly[c] THEN LogSpike(log, c, step, oob) ELSE log,
                   newly, c + 1, step, oob)

\* one iteration of the loop of a simulation function, from state s, with
\* the deviates z of this iteration's call of the random generator
LoopBody(s, z, oob) ==
    LET step == s.step
        L == refractory_period_length
        W_1 == [c \in Cells |->
                  condit_add(s.W[c], s.spike_state_matrix[c], AdaptationJump(c))]
        W_2 == [c \in Cells |-> condit_add(W_1[c], TRUE, AdaptationDecay(c, W_1[c]))]
        xi == [c \in Cells |->
                 ornstein_uhlenbeck(s.xi[c], NoiseMean(c), cfg.OU_time_constant, cfg.dt,
                                    weiner_coefficient(c), random_numbers(c, z[c]))]
        V_1 == [c \in Cells |->
                  subthresh_SASLIF_integrate(s.V[c], ~s.spike_state_matrix[c], cfg.dt,
                                             cfg.rest_V, Forcing(c, step), W_2[c],
                                             cfg.neuron_time_constant, xi[c])]
        V_3 == [c \in Cells |->
                  SpikeClamp(V_1[c], s.spike_state_matrix[c],
                             s.refractory_period_matrix[c])]
        refr_1 == [c \in Cells |->
                     condit_assign_num(s.refractory_period_matrix[c],
                                       s.refractory_period_matrix[c] > L, 0)]
        subthreshold_matrix == [c \in Cells |-> Subthreshold(V_3[c])]
        spike_1 == [c \in Cells |->
                      condit_assign_bool(s.spike_state_matrix[c], ~subthreshold_matrix[c], TRUE)]
        spike_2 == [c \in Cells |->
                      condit_assign_bool(spike_1[c], subthreshold_matrix[c], FALSE)]
        newly == [c \in Cells |-> spike_2[c] = TRUE /\ refr_1[c] = 0]
        log == LogSpikes([spike_stack |-> s.spike_stack,
                          stack_topography |-> s.stack_topography,
                          fault |-> FALSE], newly, 0, step, oob)
        refr_2 == [c \in Cells |-> RefractoryIncrement(refr_1[c], spike_2[c])]
    IN  IF log.fault
        THEN [s EXCEPT !.status = "failed", !.V = V_3, !.xi = xi, !.W = W_2,
                       !.spike_state_matrix = spike_2,
                       !.refractory_period_matrix = refr_1,
                       !.spike_stack = log.spike_stack,
                       !.stack_topography = log.stack_topography]
        ELSE [step |-> step + 1,
              status |-> IF step + 1 < num_timesteps THEN "running" ELSE "returned",
              V |-> V_3, xi |-> xi, W |-> W_2,
              spike_state_matrix |-> spike_2,
              refractory_period_matrix |-> refr_2,
              spike_stack |-> log.spike_stack,
              stack_topography |-> log.stack_topography]

(***************************************************************************)
(* The six simulation functions.  Each definition is one iteration of the  *)
(* function's loop; FirstStep is where its range starts.                   *)
(***************************************************************************)
FirstStep(variant, ARC) ==
    CASE variant = "forcing"      -> IF ARC THEN 0 ELSE 1
      [] variant = "neurodynamic" -> IF ARC THEN 0 ELSE 1
      [] variant = "stochastic"   -> IF ARC THEN 1 ELSE 1

HPC_phi_6_sim_forcing_subspace(z, oob) == LoopBody(sim, z, oob)

HPC_phi_6_sim_forcing_subspace_ARC(z, oob) == LoopBody(sim_ARC, z, oob)

HPC_phi_6_sim_neurodynamic_subspace(z, oob) == LoopBody(sim, z, oob)

HPC_phi_6_sim_neurodynamic_subspace_ARC(z, oob) == LoopBody(sim_ARC, z, oob)

HPC_phi_6_sim_stochastic_subspace(z, oob) == LoopBody(sim, z, oob)

HPC_phi_6_sim_stochastic_subspace_ARC(z, oob) == LoopBody(sim_ARC, z, oob)

(***************************************************************************)
(* The trace-preserving function and its twin run on the same sequence of  *)
(* random draws: the k-th call of the generator returns the same deviates  *)
(* to both.  One action is the k-th iteration of each of the two loops; a  *)
(* function that has returned or failed stays as it is.                    *)
(***************************************************************************)
Running == sim.status = "running" \/ sim_ARC.status = "running"

Pair(variant, next(_, _), next_ARC(_, _)) ==
    /\ cfg.variant = variant
    /\ Running
    /\ \E z \in [Cells -> Draws], oob \in Outcomes(sim), oob_ARC \in Outcomes(sim_ARC) :
         /\ sim' = IF sim.status = "running" THEN next(z, oob) ELSE sim
         /\ sim_ARC' = IF sim_ARC.status = "running" THEN next_ARC(z, oob_ARC) ELSE sim_ARC
    /\ num_calls' = num_calls + 1
    /\ UNCHANGED <<cfg, analysis, quantifier, manager, rerun>>

ForcingStep ==
    Pair("forcing", HPC_phi_6_sim_forcing_subspace, HPC_phi_6_sim_forcing_subspace_ARC)

NeurodynamicStep ==
    Pair("neurodynamic", HPC_phi_6_sim_neurodynamic_subspace,
         HPC_phi_6_sim_neurodynamic_subspace_ARC)

StochasticStep ==
    Pair("stochastic", HPC_phi_6_sim_stochastic_subspace,
         HPC_phi_6_sim_stochastic_subspace_ARC)

Init ==
    /\ cfg \in Configs
    /\ sim = InitState(FirstStep(cfg.variant, FALSE))
    /\ sim_ARC = InitState(FirstStep(cfg.variant, TRUE))
    /\ num_calls = 0
    /\ analysis = [status |-> "idle"]
    /\ quantifier = [status |-> "idle"]
    /\ manager = [status |-> "idle"]
    /\ rerun = [status |-> "idle"]

Next == ForcingStep \/ NeurodynamicStep \/ StochasticStep

Spec == Init /\ [][Next]_vars

(***************************************************************************)
(* A simulation function run twice on the same configuration and mesh: sim *)
(* is the first run and rerun the second.  In every iteration the two runs *)
(* receive the same deviate from the random generator for the cells of     *)
(* manager.same_draws (all cells, or one cell) and opposite deviates for   *)
(* the others.  The outcome of an out-of-bounds write is each run's own.   *)
(***************************************************************************)
\* some cell of the mesh depends on its draws
HasNoise == \E c \in Cells : weiner_coefficient(c) # 0

\* the deviates of the second run, given those of the first
OtherDraws(z) == [c \in Cells |-> IF c \in manager.same_draws THEN z[c] ELSE -z[c]]

Twice(variant, ARC) ==
    /\ cfg.variant = variant
    /\ manager.ARC = ARC
    /\ sim.status = "running" \/ rerun.status = "running"
    /\ \E z \in [Cells -> Draws], oob \in Outcomes(sim), oob_2 \in Outcomes(rerun) :
         /\ sim' = IF sim.status = "running" THEN LoopBody(sim, z, oob) ELSE sim
         /\ rerun' = IF rerun.status = "running"
                     THEN LoopBody(rerun, OtherDraws(z), oob_2) ELSE rerun
    /\ num_calls' = num_calls + 1
    /\ UNCHANGED <<cfg, sim_ARC, analysis, quantifier, manager>>

InitTwice ==
    /\ cfg \in Configs
    /\ \E ARC \in BOOLEAN, same \in {Cells} \cup {{c} : c \in IF HasNoise THEN Cells ELSE {}} :
         /\ manager = [status |-> "simulating", ARC |-> ARC, same_draws |-> same]
         /\ sim = InitState(FirstStep(cfg.variant, ARC))
         /\ rerun = InitState(FirstStep(cfg.variant, ARC))
    /\ sim_ARC = [status |-> "idle"]
    /\ num_calls = 0
    /\ analysis = [status |-> "idle"]
    /\ quantifier = [status |-> "idle"]

NextTwice ==
    \/ Twice("forcing", FALSE) \/ Twice("forcing", TRUE)
    \/ Twice("neurodynamic", FALSE) \/ Twice("neurodynamic", TRUE)
    \/ Twice("stochastic", FALSE) \/ Twice("stochastic", TRUE)

SpecTwice == InitTwice /\ [][NextTwice]_vars

(***************************************************************************)
(* Real values of the analysis.  A phase is a whole number of quarter      *)
(* turns (2 pi is PhaseTurn units); a mean of phases is the exact fraction *)
(* <<numerator, denominator>> in lowest terms, so that the float value 0   *)
(* is the fraction <<0, 1>> and equal values are equal fractions.          *)
(***************************************************************************)
PhaseTurn == 4

RECURSIVE GCD(_, _)
GCD(a, b) == IF b = 0 THEN a ELSE GCD(b, a % b)

Frac(n, d) ==
    LET g == GCD(Abs(n), d) IN <<Quot(n, g), d \div g>>

Zero == Frac(0, 1)

FracSub(p, q) == Frac(p[1] * q[2] - q[1] * p[2], p[2] * q[2])

FracAdd(p, q) == Frac(p[1] * q[2] + q[1] * p[2], p[2] * q[2])

RECURSIVE Sum(_)
Sum(seq) == IF seq = <<>> THEN 0 ELSE Head(seq) + Sum(Tail(seq))

\* the elements of the sequence seq of integers in ascending order
RECURSIVE Sorted(_)
Sorted(seq) ==
    IF seq = <<>> THEN <<>>
    ELSE LET m == CHOOSE i \in 1..Len(seq) : \A j \in 1..Len(seq) : seq[i] <= seq[j]
         IN  <<seq[m]>> \o Sorted(SubSeq(seq, 1, m - 1) \o SubSeq(seq, m + 1, Len(seq)))

\* np.mean and np.median of a non-empty sequence of phases
Mean(data) == Frac(Sum(data), Len(data))

Median(data) ==
    LET srt == Sorted(data)
        n == Len(data)
    IN  IF n % 2 = 1 THEN Frac(srt[(n + 1) \div 2], 1)
        ELSE Frac(srt[n \div 2] + srt[n \div 2 + 1], 2)

\* the techniques of the model: the three the function names and a
\* selector it does not recognise
Techniques == {"mean", "median", "KDE", "mode"}

\* KDE_interval = np.linspace(0, 2 pi), at the resolution of the model
KDE_interval == {Frac(k, 1) : k \in 0..PhaseTurn}

\* The grid point where the fitted density is largest.  The density is a
\* sum of Gaussian kernels centred on the data, fitted by library code; of
\* its largest grid point the model keeps that it is a point of
\* KDE_interval that lies between the least and the greatest element.
KDE_argmax(data) ==
    LET srt == Sorted(data)
    IN  CHOOSE q \in KDE_interval : srt[1] <= q[1] /\ q[1] <= srt[Len(srt)]

central_tendency_selector_zero(data, central_tendency_technique) ==
    CASE central_tendency_technique = "mean" -> Mean(data)
      [] central_tendency_technique = "median" -> Median(data)
      [] central_tendency_technique = "KDE" ->
           IF Len(data) = 1 THEN Frac(data[1], 1) ELSE KDE_argmax(data)
      [] OTHER -> Zero

central_tendency_selector(data, central_tendency_technique) ==
    CASE central_tendency_technique = "mean" -> Mean(data)
      [] central_tendency_technique = "median" -> Median(data)
      [] central_tendency_technique = "KDE" ->
           IF Len(data) = 1 THEN Frac(data[1], 1) ELSE KDE_argmax(data)
      [] OTHER -> Mean(data)

(***************************************************************************)
(* HPC_phi_phase_analysis.  Its arguments are the spike log and the        *)
(* analytic signal; the model takes the angle np.arctan2 returns for each  *)
(* sample of the signal, in quarter turns from -2 to 2.                    *)
(***************************************************************************)
\* the phase of a sample: shifted to [0, 2 pi), offset by -3 pi / 2, and
\* readjusted to [0, 2 pi)
Phase(angle) ==
    LET shifted == IF angle < 0 THEN angle + PhaseTurn ELSE angle
        offset == shifted - (3 * PhaseTurn) \div 4
    IN  IF offset < 0 THEN offset + PhaseTurn ELSE offset

theta_phase_time_series(angles) == [t \in DOMAIN angles |-> Phase(angles[t])]

\* np.diff: element k is series[k + 1] - series[k]
theta_omega_time_series(series) ==
    [k \in {t \in DOMAIN series : t + 1 \in DOMAIN series} |-> series[k + 1] - series[k]]

\* np.where(condition)[0] over the indices from k on: ascending
RECURSIVE Where(_, _, _)
Where(holds, k, last) ==
    IF k > last THEN <<>>
    ELSE (IF k \in holds THEN <<k>> ELSE <<>>) \o Where(holds, k + 1, last)

cycle_boundary_indices_wrong(series) ==
    LET omega == theta_omega_time_series(series)
    IN  Where({k \in DOMAIN omega : omega[k] > 0}, 0, MaxSamples)

cycle_boundary_indices(series) ==
    LET omega == theta_omega_time_series(series)
    IN  Where({k \in DOMAIN omega : omega[k] < 0}, 0, MaxSamples)

\* range(spike_stack.shape[2]): the slots of the log the function is passed
Depth(spike_stack) == DOMAIN spike_stack[CHOOSE c \in Cells : TRUE]

\* the slices of the log where every cell holds 0; the function truncates
\* the log at the first of them and has no truncation index without one
ZeroSlices(spike_stack) ==
    {k \in Depth(spike_stack) : \A c \in Cells : spike_stack[c][k] = 0}

truncation_index(spike_stack) ==
    CHOOSE k \in ZeroSlices(spike_stack) : \A j \in ZeroSlices(spike_stack) : k <= j

\* whether the spike index v is taken into cycle i (from 0), given the
\* boundaries b (a sequence, from 1)
InCycle(v, i, b) ==
    IF i = 0 THEN v < b[1]
    ELSE IF i < Len(b) THEN v >= b[i] /\ v < b[i + 1]
    ELSE v >= b[i]

\* the phases at the unmasked spike indices of a truncated column that fall
\* in cycle i, in slot order
RECURSIVE cycle_phi(_, _, _, _, _, _)
cycle_phi(stack_column, k, truncation, i, b, series) ==
    IF k >= truncation THEN <<>>
    ELSE (IF stack_column[k] # 0 /\ InCycle(stack_column[k], i, b)
          THEN <<series[stack_column[k]]>> ELSE <<>>)
         \o cycle_phi(stack_column, k + 1, truncation, i, b, series)

\* the number of cycles the block is built for
num_cycles_short(b) == Len(b)

num_cycles(b) == Len(b) + 1

\* the call: the result, or the exception it ends with
HPC_phi_phase_analysis(spike_stack, angles, central_tendency_technique) ==
    LET series == theta_phase_time_series(angles)
        b == cycle_boundary_indices(series)
        Entry(c, i) ==
            LET data == cycle_phi(spike_stack[c], 0, truncation_index(spike_stack), i, b, series)
            IN  IF Len(data) # 0
                THEN central_tendency_selector(data, central_tendency_technique)
                ELSE Zero
    IN  IF ZeroSlices(spike_stack) = {}
        THEN [status |-> "raised", error |-> "UnboundLocalError"]
        ELSE IF Len(b) = 0 /\ Cells # {}
        THEN [status |-> "raised", error |-> "IndexError"]
        ELSE [status |-> "returned",
              cycle_phi_block |->
                  [c \in Cells |-> [i \in 0..(num_cycles(b) - 1) |-> Entry(c, i)]],
              cycle_boundary_indices |-> b]

(***************************************************************************)
(* The inputs of the phase analysis.  A column of the spike log is one a   *)
(* simulation can return: step indices in increasing order and then zeros, *)
(* where the first entry is 0 when the cell spiked at step 0 (the _ARC     *)
(* functions of the forcing and neurodynamic meshes start at step 0).      *)
(***************************************************************************)
IsLog(col) ==
    \A a \in Slots : \A k \in Slots :
        a < k => \/ col[k] = 0
                 \/ col[a] < col[k]

Logs == {col \in [Slots -> 0..(MaxSamples - 1)] : IsLog(col)}

\* the angles of the samples.  A signal in phase with sin has angle
\* phase - pi / 2 (one quarter turn); SinAngles is such a signal whose
\* phase rises linearly from 0 and wraps every P samples.
AngleSets == {-1, 1}

Periods == {2, 4}

SinAngles(P) == [t \in 0..(MaxSamples - 1) |-> (t % P) * (PhaseTurn \div P) - 1]

\* a signal whose phase falls by a quarter turn a sample
Falling == [t \in 0..(MaxSamples - 1) |-> <<2, 1, 0, -1>>[(t % 4) + 1]]

Signals ==
    [0..(MaxSamples - 1) -> AngleSets] \cup {SinAngles(P) : P \in Periods} \cup {Falling}

(***************************************************************************)
(* HPC_phi_compute_RMQ.  The setting 'num_cycles' of the post-simulation   *)
(* specifications is a Python value: an int, or the string 'all'.  An      *)
(* entry of the result is masked where no difference is left unmasked.     *)
(***************************************************************************)
Int_(n) == [type |-> "int", int |-> n]

Str_(t) == [type |-> "str", str |-> t]

NumCyclesSettings == {Int_(n) : n \in -1..(MaxSamples + 1)} \cup {Str_("all")}

Min(a, b) == IF a <= b THEN a ELSE b

Masked == [masked |-> TRUE, value |-> Zero]

Value(q) == [masked |-> FALSE, value |-> q]

\* np.ma.masked_equal(block, 0) of one cell's entries
masked_equal(q) == IF q = Zero THEN Masked ELSE Value(q)

\* np.diff of the flipped slice: difference j is flipped[j + 1] - flipped[j]
\* where flipped[j] is slice[n - 1 - j]; masked if either operand is
first_order_differences_forward(slice, n) ==
    [j \in 0..(n - 2) |->
        LET later == masked_equal(slice[n - 1 - j])
            earlier == masked_equal(slice[n - 2 - j])
        IN  IF later.masked \/ earlier.masked THEN Masked
            ELSE Value(FracSub(later.value, earlier.value))]

first_order_differences(slice, n) ==
    [j \in 0..(n - 2) |->
        LET later == masked_equal(slice[n - 1 - j])
            earlier == masked_equal(slice[n - 2 - j])
        IN  IF later.masked \/ earlier.masked THEN Masked
            ELSE Value(FracSub(earlier.value, later.value))]

\* np.mean of a masked vector over its unmasked elements
RECURSIVE MaskedSum(_, _, _)
MaskedSum(d, j, last) ==
    IF j > last THEN Zero
    ELSE IF d[j].masked THEN MaskedSum(d, j + 1, last)
    ELSE FracAdd(d[j].value, MaskedSum(d, j + 1, last))

MaskedMean(d, n) ==
    LET count == Cardinality({j \in 0..(n - 2) : ~d[j].masked})
        total == MaskedSum(d, 0, n - 2)
    IN  IF count = 0 THEN Masked
        ELSE Value(Frac(total[1], total[2] * count))

\* the number of cycles the setting stands for, of the `available` ones
EffectiveCycles(setting, available) ==
    Min(IF setting.int <= 0 THEN available ELSE setting.int, available)

\* the call: the result, or the exception it ends with.  The comparison
\* num_cycles <= 0 comes first and is not defined between str and int.
HPC_phi_compute_RMQ(setting, cycle_phi_block) ==
    LET available == Cardinality(DOMAIN cycle_phi_block[CHOOSE c \in Cells : TRUE])
        n == EffectiveCycles(setting, available)
        Slice(c) == [i \in 0..(n - 1) |-> cycle_phi_block[c][available - n + i]]
    IN  IF setting.type = "str"
        THEN [status |-> "raised", error |-> "TypeError", setting |-> setting]
        ELSE [status |-> "returned", setting |-> setting,
              RMQ_array |->
                  [c \in Cells |-> MaskedMean(first_order_differences(Slice(c), n), n)]]

(***************************************************************************)
(* The analysis of a spike log: the phase analysis and then the RMQ        *)
(* assessment of its block, as execute_pipeline chains them.               *)
(***************************************************************************)
InitAnalysis ==
    /\ cfg = CHOOSE k \in Configs : TRUE
    /\ sim = InitState(1)
    /\ sim_ARC = InitState(1)
    /\ num_calls = 0
    /\ \E spike_stack \in [Cells -> Logs], angles \in Signals :
           analysis = [status |-> "ready", spike_stack |-> spike_stack,
                       analytic_signal |-> angles]
    /\ quantifier = [status |-> "idle"]
    /\ manager = [status |-> "idle"]
    /\ rerun = [status |-> "idle"]

\* The arrays of the caller after the calls.  Line 1193 takes a slice of
\* the log, np.ma.masked_equal copies it into a new masked array, and the
\* assignment binds the local name to the copy; no statement of the function
\* stores into the array it was passed.  Lines 1264 to 1267 do the same with
\* the block: a slice, a masked copy, a flipped view and new arrays.
spike_stack_argument_truncated(spike_stack) ==
    IF ZeroSlices(spike_stack) = {} THEN spike_stack
    ELSE [c \in Cells |->
            [k \in Slots |->
                IF k < truncation_index(spike_stack) THEN spike_stack[c][k] ELSE 0]]

spike_stack_argument(spike_stack) == spike_stack

cycle_phi_block_argument(cycle_phi_block) == cycle_phi_block

\* the selectors central_tendency_selector names; the pipeline passes one
\* of them on from its post-simulation specifications
NamedTechniques == {"mean", "median", "KDE"}

PhaseAnalysis ==
    /\ analysis.status = "ready"
    /\ \E technique \in NamedTechniques :
           analysis' = [spike_stack |-> spike_stack_argument(analysis.spike_stack),
                        analytic_signal |-> analysis.analytic_signal,
                        central_tendency_technique |-> technique,
                        result |-> HPC_phi_phase_analysis(analysis.spike_stack,
                                       analysis.analytic_signal, technique),
                        status |-> "done"]
    /\ UNCHANGED <<cfg, sim, sim_ARC, num_calls, quantifier, manager, rerun>>

ComputeRMQ ==
    /\ analysis.status = "done"
    /\ analysis.result.status = "returned"
    /\ quantifier.status = "idle"
    /\ \E setting \in NumCyclesSettings :
           quantifier' = HPC_phi_compute_RMQ(setting, analysis.result.cycle_phi_block)
    /\ analysis' = [analysis EXCEPT
                       !.result.cycle_phi_block = cycle_phi_block_argument(@)]
    /\ UNCHANGED <<cfg, sim, sim_ARC, num_calls, manager, rerun>>

NextAnalysis == PhaseAnalysis \/ ComputeRMQ

SpecAnalysis == InitAnalysis /\ [][NextAnalysis]_vars

(***************************************************************************)
(* The phase analysis of a log with several spikes in a cell.  The log has *)
(* MaxSpikes + 1 slots; a column holds step indices from 1 on that are at  *)
(* least 2 apart (a cell is reset in the step after it fires), and then    *)
(* zeros.                                                                  *)
(***************************************************************************)
IsSpacedLog(col) ==
    \A a \in DOMAIN col : \A k \in DOMAIN col :
        a < k => \/ col[k] = 0
                 \/ col[a] # 0 /\ col[a] + 2 <= col[k]

SpacedLogs == {col \in [0..MaxSpikes -> 0..(MaxSamples - 1)] : IsSpacedLog(col)}

InitCycles ==
    /\ cfg = CHOOSE k \in Configs : TRUE
    /\ sim = InitState(1)
    /\ sim_ARC = InitState(1)
    /\ num_calls = 0
    /\ \E spike_stack \in [Cells -> SpacedLogs], angles \in Signals :
           analysis = [status |-> "ready", spike_stack |-> spike_stack,
                       analytic_signal |-> angles]
    /\ quantifier = [status |-> "idle"]
    /\ manager = [status |-> "idle"]
    /\ rerun = [status |-> "idle"]

NextCycles == PhaseAnalysis

SpecCycles == InitCycles /\ [][NextCycles]_vars

(***************************************************************************)
(* The RMQ assessment of a block of per-cycle phases given directly: every *)
(* entry is a central tendency of phases, or the 0 of a cycle without      *)
(* spikes.                                                                 *)
(***************************************************************************)
PhiValues == {Frac(n, 1) : n \in 0..(PhaseTurn - 1)}

Blocks == UNION {[Cells -> [0..(C - 1) -> PhiValues]] : C \in 1..MaxCycles}

InitRMQ ==
    /\ cfg = CHOOSE k \in Configs : TRUE
    /\ sim = InitState(1)
    /\ sim_ARC = InitState(1)
    /\ num_calls = 0
    /\ \E block \in Blocks :
           analysis = [status |-> "done",
                       result |-> [status |-> "returned", cycle_phi_block |-> block]]
    /\ quantifier = [status |-> "idle"]
    /\ manager = [status |-> "idle"]
    /\ rerun = [status |-> "idle"]

NextRMQ == ComputeRMQ

SpecRMQ == InitRMQ /\ [][NextRMQ]_vars

(***************************************************************************)
(* central_tendency_selector called on its own: the data are the phases of *)
(* the spikes of one cell in one cycle, at least one of them.              *)
(***************************************************************************)
Samples == UNION {[1..n -> 0..(PhaseTurn - 1)] : n \in 1..MaxData}

InitSelector ==
    /\ cfg = CHOOSE k \in Configs : TRUE
    /\ sim = InitState(1)
    /\ sim_ARC = InitState(1)
    /\ num_calls = 0
    /\ \E data \in Samples, technique \in Techniques :
           analysis = [status |-> "selecting", data |-> data,
                       central_tendency_technique |-> technique]
    /\ quantifier = [status |-> "idle"]
    /\ manager = [status |-> "idle"]
    /\ rerun = [status |-> "idle"]

CentralTendency ==
    /\ analysis.status = "selecting"
    /\ analysis' = [status |-> "selected", data |-> analysis.data,
                    central_tendency_technique |-> analysis.central_tendency_technique,
                    CT |-> central_tendency_selector(analysis.data,
                               analysis.central_tendency_technique)]
    /\ UNCHANGED <<cfg, sim, sim_ARC, num_calls, quantifier, manager, rerun>>

NextSelector == CentralTendency

SpecSelector == InitSelector /\ [][NextSelector]_vars

(***************************************************************************)
(* PipelineManager.  The manager keeps the parameter subsets it was given  *)
(* as the attributes subset_k and subset_k_name, k counting the calls of   *)
(* add_parameter_subset; manager.subsets[k] holds the pair.                *)
(* execute_pipeline is modelled up to the call of the simulation function: *)
(* it ends with an exception or with that call and its mesh argument.      *)
(* A comparison of an array attribute with a name in list.index is False   *)
(* (the FutureWarning the _init functions silence).                        *)
(***************************************************************************)
\* the names a subset can carry and the values np.linspace gives it
SubsetNames == {"theta_amplitude", "interference_amplitude", "response_constant",
                "decay_constant", "OU_mu", "OU_sigma"}

SubsetValues == {<<5>>, <<1, 2>>}

MeshTypes == {"forcing", "neurodynamics", "stochastic"}

\* the two names whose subsets span the mesh of a mesh type
MeshNames(mesh_type) ==
    CASE mesh_type = "forcing" -> <<"theta_amplitude", "interference_amplitude">>
      [] mesh_type = "neurodynamics" -> <<"response_constant", "decay_constant">>
      [] mesh_type = "stochastic" -> <<"OU_mu", "OU_sigma">>

add_parameter_subset(m, values, name) ==
    [m EXCEPT !.subsets = Append(@, [values |-> values, name |-> name]),
              !.num_subsets = @ + 1]

\* whether some attribute of m has the value name, and the first k whose
\* attribute subset_k_name has it: the key is 'subset_k'
HasName(m, name) == \E k \in 1..Len(m.subsets) : m.subsets[k].name = name

SubsetKey(m, name) ==
    CHOOSE k \in 1..Len(m.subsets) :
        /\ m.subsets[k].name = name
        /\ \A j \in 1..(k - 1) : m.subsets[j].name # name

\* np.transpose(np.array(np.meshgrid(a, b))): entry [i, j] is (a[i], b[j])
Meshgrid(a, b) ==
    [ij \in (0..(Len(a) - 1)) \X (0..(Len(b) - 1)) |-> <<a[ij[1] + 1], b[ij[2] + 1]>>]

\* the names _init_forcing, _init_neurodynamics and _init_stochastic look
\* the two subset keys up by
LookupNames(mesh_type) ==
    IF mesh_type = "forcing" THEN <<"theta_amplitude", "theta_amplitude">>
    ELSE MeshNames(mesh_type)

\* the simulation function execute_pipeline calls for a mesh type
SimulationFunction(mesh_type, ARC) ==
    CASE mesh_type = "forcing" ->
           IF ARC THEN "HPC_phi_6_sim_forcing_subspace_ARC"
           ELSE "HPC_phi_6_sim_forcing_subspace"
      [] mesh_type = "neurodynamics" ->
           IF ARC THEN "HPC_phi_6_sim_neurodynamic_subspace_ARC"
           ELSE "HPC_phi_6_sim_neurodynamic_subspace"
      [] mesh_type = "stochastic" ->
           IF ARC THEN "HPC_phi_6_sim_stochastic_subspace_ARC"
           ELSE "HPC_phi_6_sim_stochastic_subspace"

Raised(m, error) == [m EXCEPT !.status = "raised", !.error = error]

execute_pipeline(m, mesh_type) ==
    LET names == LookupNames(mesh_type)
        key_1 == SubsetKey(m, names[1])
        key_2 == SubsetKey(m, names[2])
    IN  IF m.num_subsets < 2
        THEN Raised(m, "AttributeError")
        ELSE IF m.num_subsets # 2
        THEN Raised(m, "Must pass 2 parameter subsets")
        ELSE IF ~HasName(m, names[1]) \/ ~HasName(m, names[2])
        THEN Raised(m, "ValueError")
        ELSE [m EXCEPT !.status = "simulating",
                       !.mesh_type = mesh_type,
                       !.call = [function |-> SimulationFunction(mesh_type, m.ARC),
                                 mesh |-> Meshgrid(m.subsets[key_1].values,
                                                   m.subsets[key_2].values),
                                 subspace_1_size |-> Len(m.subsets[key_1].values),
                                 subspace_2_size |-> Len(m.subsets[key_2].values)]]

InitPipeline ==
    /\ cfg = CHOOSE k \in Configs : TRUE
    /\ sim = InitState(1)
    /\ sim_ARC = InitState(1)
    /\ num_calls = 0
    /\ analysis = [status |-> "idle"]
    /\ quantifier = [status |-> "idle"]
    /\ \E ARC \in BOOLEAN :
           manager = [status |-> "constructed", ARC |-> ARC, num_subsets |-> 0,
                      subsets |-> <<>>, error |-> "", mesh_type |-> "",
                      call |-> [function |-> ""]]
    /\ rerun = [status |-> "idle"]

AddParameterSubset ==
    /\ manager.status = "constructed"
    /\ manager.num_subsets < MaxSubsets
    /\ \E values \in SubsetValues, name \in SubsetNames :
           manager' = add_parameter_subset(manager, values, name)
    /\ UNCHANGED <<cfg, sim, sim_ARC, num_calls, analysis, quantifier, rerun>>

ExecutePipeline ==
    /\ manager.status = "constructed"
    /\ \E mesh_type \in MeshTypes : manager' = execute_pipeline(manager, mesh_type)
    /\ UNCHANGED <<cfg, sim, sim_ARC, num_calls, analysis, quantifier, rerun>>

NextPipeline == AddParameterSubset \/ ExecutePipeline

SpecPipeline == InitPipeline /\ [][NextPipeline]_vars

(***************************************************************************)
(* Properties of the simulations.                                          *)
(***************************************************************************)
\* the two simulations of the configuration
Sims == {sim, sim_ARC}


Returned(s) == s.status = "returned"

\* C1: for every configuration and sequence of draws, a trace-preserving
\* simulation and its trace-free twin return the same spike log.
C1_SameSpikeLog ==
    (Returned(sim) /\ Returned(sim_ARC)) => sim.spike_stack = sim_ARC.spike_stack

\* C2: in every variant, after any number of steps, the occupancy counter
\* of every cell is at most the capacity stack_height.
C2_OccupancyBounded ==
    \A s \in Sims : \A c \in Cells : s.stack_topography[c] <= stack_height

\* cell c of simulation s newly enters the spiking state in the step to t
Enters(s, t, c) == ~s.spike_state_matrix[c] /\ t.spike_state_matrix[c]

\* the step from s to t of a simulation with a full cell that newly spikes
\* drops the spike: the simulation goes on, and the only slots that change
\* are those of other cells that newly spike in this step
Dropped(s, t) ==
    \A c \in Cells :
        (s.status = "running" /\ s.stack_topography[c] >= stack_height /\ Enters(s, t, c))
        => /\ t.status # "failed"
           /\ \A d \in Cells : \A k \in Slots :
                (d = c \/ ~Enters(s, t, d) \/ s.spike_stack[d][k] # 0)
                => t.spike_stack[d][k] = s.spike_stack[d][k]

\* C3: when a cell that already holds stack_height logged spikes newly
\* enters the spiking state, the spike is dropped: no written slot of its
\* log and no slot of another cell's log is overwritten, and the simulation
\* continues.
C3_OverflowDropped == [][Dropped(sim, sim') /\ Dropped(sim_ARC, sim_ARC')]_vars

\* the occupied entries of every cell of s increase strictly with the slot
Increasing(s) ==
    \A c \in Cells : \A a \in Slots : \A b \in Slots :
        (a < b /\ b < s.stack_topography[c]) => s.spike_stack[c][a] < s.spike_stack[c][b]

\* no written slot of s differs in t
WriteOnce(s, t) ==
    \A c \in Cells : \A k \in Slots :
        k < s.stack_topography[c] => t.spike_stack[c][k] = s.spike_stack[c][k]

\* C4: within every cell's log the occupied entries are strictly increasing
\* in slot order after any number of steps, and a written slot is never
\* modified by a later step.
C4_LogIncreasing ==
    [][/\ Increasing(sim') /\ Increasing(sim_ARC')
       /\ WriteOnce(sim, sim') /\ WriteOnce(sim_ARC, sim_ARC')]_vars

\* C5 as stated: at every step boundary each cell's refractory counter lies
\* in [0, refractory_period_length].
C5_RefractoryWithinLength ==
    \A s \in Sims : \A c \in Cells :
        s.refractory_period_matrix[c] \in 0..refractory_period_length

\* C5, amended: at every step boundary each cell's refractory counter lies
\* in [0, refractory_period_length + 1].
C5_RefractoryWithinLengthPlusOne ==
    \A s \in Sims : \A c \in Cells :
        s.refractory_period_matrix[c] \in 0..(refractory_period_length + 1)

\* a simulation has a cell whose counter is one above the refractory length
C5_Witness ==
    \E s \in Sims : \E c \in Cells :
        s.refractory_period_matrix[c] = refractory_period_length + 1

\* cell c has zero forcing amplitude and zero noise volatility
ZeroDrive(c) ==
    /\ weiner_coefficient(c) = 0
    /\ IF cfg.variant = "forcing"
       THEN ParameterMesh[c][1] = 0 /\ ParameterMesh[c][2] = 0
       ELSE cfg.theta_amplitude = 0 /\ cfg.interference_amplitude = 0

\* cell c of simulation s has never spiked
Silent(s, c) == ~s.spike_state_matrix[c] /\ s.stack_topography[c] = 0

AnalysisReturned == analysis.status = "done" /\ analysis.result.status = "returned"

Boundaries == analysis.result.cycle_boundary_indices

Block == analysis.result.cycle_phi_block

\* the number of cycles of the returned block
C_ == Cardinality(DOMAIN Block[CHOOSE c \in Cells : TRUE])

\* the window of cycle i among C cycles with boundaries b, as a set of
\* sample indices
Window(i, b, C) ==
    {v \in 0..(MaxSamples - 1) :
        IF i = 0 THEN v < b[1]
        ELSE IF i = C - 1 THEN v >= b[C - 1]
        ELSE b[i] <= v /\ v < b[i + 1]}

\* the spike indices of cell c: the non-zero entries of its column
SpikeIndices(c) == {analysis.spike_stack[c][k] : k \in DOMAIN analysis.spike_stack[c]} \ {0}

\* the phases at the indices of the set S, as a sequence in ascending order
\* of index
RECURSIVE PhasesAt(_, _)
PhasesAt(S, series) ==
    IF S = {} THEN <<>>
    ELSE LET v == CHOOSE x \in S : \A y \in S : x <= y
         IN  <<series[v]>> \o PhasesAt(S \ {v}, series)

\* C7: every spike index of a cell lies in the window of exactly one cycle,
\* and the block entry of the cell at a cycle is the central tendency of
\* the phases at the spike indices in that cycle's window (0 if none)
C7_CycleAssignment ==
    AnalysisReturned =>
        \A c \in Cells :
            /\ \A v \in SpikeIndices(c) :
                   Cardinality({i \in 0..(C_ - 1) : v \in Window(i, Boundaries, C_)}) = 1
            /\ \A i \in 0..(C_ - 1) :
                   LET S == SpikeIndices(c) \cap Window(i, Boundaries, C_)
                       series == theta_phase_time_series(analysis.analytic_signal)
                   IN  Block[c][i] =
                           IF S = {} THEN Zero
                           ELSE central_tendency_selector(PhasesAt(S, series),
                                    analysis.central_tendency_technique)

\* C8: the returned boundary sequence is strictly increasing and has one
\* element less than the returned block has cycles
C8_BoundariesIncreasing ==
    AnalysisReturned =>
        /\ \A m \in 1..Len(Boundaries) : \A n \in 1..Len(Boundaries) :
               m < n => Boundaries[m] < Boundaries[n]
        /\ \A c \in Cells : Cardinality(DOMAIN Block[c]) = Len(Boundaries) + 1

C8_Witness ==
    AnalysisReturned /\ Len(Boundaries) >= 2

\* the samples after the first at which a phase of period P wraps
Wraps(P) == {t \in 1..(MaxSamples - 1) : t % P = 0}

\* C9: for a signal whose phase rises linearly from 0 and wraps every P
\* samples, there is one boundary per wrap, the n-th within one sample of
\* n * P
C9_BoundariesAtPeriod ==
    \A P \in Periods :
        (AnalysisReturned /\ analysis.analytic_signal = SinAngles(P)) =>
            /\ Len(Boundaries) = Cardinality(Wraps(P))
            /\ \A n \in 1..Len(Boundaries) : Abs(Boundaries[n] - n * P) <= 1

C9_Witness ==
    /\ AnalysisReturned
    /\ \E P \in Periods : analysis.analytic_signal = SinAngles(P) /\ Cardinality(Wraps(P)) >= 2
    /\ Len(Boundaries) >= 2

\* C10: a call with the setting 'all' returns, and returns what a call with
\* a number of cycles above the number available returns
C10_ExcessLikeAll ==
    (quantifier.status # "idle" /\ quantifier.setting.type = "str") =>
        /\ quantifier.status = "returned"
        /\ \A n \in (C_ + 1)..(MaxSamples + 1) :
               quantifier.RMQ_array = HPC_phi_compute_RMQ(Int_(n), Block).RMQ_array

(***************************************************************************)
(* Properties of the RMQ assessment.                                       *)
(***************************************************************************)
\* a call with an int setting has returned
RMQReturned == quantifier.status = "returned"

\* the number of cycles selected by the int setting of the call
Selected == IF quantifier.setting.int <= 0 \/ quantifier.setting.int > C_
            THEN C_ ELSE quantifier.setting.int

\* the adjacent pairs (i, i + 1) of the selected cycles of cell c
Pairs(c) == (C_ - Selected)..(C_ - 2)

\* the values of cell c over the selected cycles are all non-sentinel
AllPresent(c) == \A i \in (C_ - Selected)..(C_ - 1) : Block[c][i] # Zero

\* p < q for fractions with positive denominators
FracLess(p, q) == p[1] * q[2] < q[1] * p[2]

\* C11: over at least two selected cycles without sentinel, strictly
\* decreasing phases give a negative RMQ, strictly increasing phases a
\* positive one, and constant phases zero
C11_SignConvention ==
    RMQReturned =>
        \A c \in Cells :
            (AllPresent(c) /\ Selected >= 2) =>
                /\ ~quantifier.RMQ_array[c].masked
                /\ (\A i \in Pairs(c) : FracLess(Block[c][i + 1], Block[c][i]))
                       => quantifier.RMQ_array[c].value[1] < 0
                /\ (\A i \in Pairs(c) : FracLess(Block[c][i], Block[c][i + 1]))
                       => quantifier.RMQ_array[c].value[1] > 0
                /\ (\A i \in Pairs(c) : Block[c][i] = Block[c][i + 1])
                       => quantifier.RMQ_array[c].value[1] = 0

\* the sum of phi[i] - phi[i + 1] over the pairs i of the set S of cell c
RECURSIVE SumOfDrops(_, _)
SumOfDrops(c, S) ==
    IF S = {} THEN Zero
    ELSE LET i == CHOOSE x \in S : TRUE
         IN  FracAdd(FracSub(Block[c][i], Block[c][i + 1]), SumOfDrops(c, S \ {i}))

\* the pairs of the last N cycles of cell c with both values non-sentinel
PresentPairs(c, N) ==
    {i \in (C_ - N)..(C_ - 2) : Block[c][i] # Zero /\ Block[c][i + 1] # Zero}

\* C12: for a setting N in 1..C the RMQ entry of a cell is the mean of
\* phi[i] - phi[i + 1] over the adjacent pairs of the last N cycles with
\* both values non-sentinel (masked when there is no such pair)
C12_MeanOfDrops ==
    (RMQReturned /\ quantifier.setting.int \in 1..C_) =>
        \A c \in Cells :
            LET S == PresentPairs(c, quantifier.setting.int)
                total == SumOfDrops(c, S)
            IN  quantifier.RMQ_array[c] =
                    IF S = {} THEN Masked
                    ELSE Value(Frac(total[1], total[2] * Cardinality(S)))

\* a call over fewer cycles than available returned a value for a cell
\* that has a non-sentinel pair among the selected cycles and a non-sentinel
\* value before them
C12_Witness ==
    /\ RMQReturned
    /\ quantifier.setting.int \in 2..(C_ - 1)
    /\ \E c \in Cells :
           /\ PresentPairs(c, quantifier.setting.int) # {}
           /\ Block[c][0] # Zero
           /\ ~quantifier.RMQ_array[c].masked

\* cell c has no logged spike
NoSpikes(c) == \A k \in Slots : analysis.spike_stack[c][k] = 0

\* the RMQ entry of cell d as its own block entries over the selected
\* cycles determine it
OwnEntry(d) ==
    LET S == PresentPairs(d, Selected)
        total == SumOfDrops(d, S)
    IN  IF S = {} THEN Masked ELSE Value(Frac(total[1], total[2] * Cardinality(S)))

\* C13: a cell without spikes has 0 in every cycle of the returned block,
\* and every call of the RMQ assessment on that block returns, with the
\* cell's entry masked and the entries of the other cells as their own
\* block entries determine them
C13_SpikelessMasked ==
    (AnalysisReturned /\ quantifier.status # "idle") =>
        \A c \in Cells :
            NoSpikes(c) =>
                /\ \A i \in 0..(C_ - 1) : Block[c][i] = Zero
                /\ quantifier.status = "returned"
                /\ quantifier.RMQ_array[c].masked
                /\ \A d \in Cells \ {c} : quantifier.RMQ_array[d] = OwnEntry(d)

(***************************************************************************)
(* Properties of the pipeline manager.                                     *)
(***************************************************************************)
\* execute_pipeline has ended or reached the call of a simulation function
Executed == manager.status \in {"raised", "simulating"}

\* C14: execute_pipeline on a manager whose number of parameter subsets is
\* not 2 fails with the 'Must pass 2 parameter subsets' error, and no
\* simulation function is called
C14_TwoSubsetsRequired ==
    (Executed /\ manager.num_subsets # 2) =>
        /\ manager.status = "raised"
        /\ manager.error = "Must pass 2 parameter subsets"
        /\ manager.call.function = ""

\* the values of the subset of the manager with the given name
SubsetNamed(name) == manager.subsets[SubsetKey(manager, name)].values

\* C15: the mesh handed to the forcing simulation is the outer product of
\* the subsets named 'theta_amplitude' and 'interference_amplitude': its
\* shape is (len(theta), len(interference)) and cell (i, j) carries the
\* i-th theta amplitude and the j-th interference amplitude
C15_ForcingMeshOuterProduct ==
    (/\ manager.status = "simulating"
     /\ manager.mesh_type = "forcing"
     /\ HasName(manager, "theta_amplitude")
     /\ HasName(manager, "interference_amplitude")) =>
        LET theta == SubsetNamed("theta_amplitude")
            interference == SubsetNamed("interference_amplitude")
        IN  /\ manager.call.subspace_1_size = Len(theta)
            /\ manager.call.subspace_2_size = Len(interference)
            /\ DOMAIN manager.call.mesh
                   = (0..(Len(theta) - 1)) \X (0..(Len(interference) - 1))
            /\ \A i \in 0..(Len(theta) - 1) : \A j \in 0..(Len(interference) - 1) :
                   manager.call.mesh[<<i, j>>] = <<theta[i + 1], interference[j + 1]>>

C17_CellsIndependent ==
    (sim.status # "failed" /\ rerun.status # "failed") =>
        \A c \in manager.same_draws :
            /\ rerun.V[c] = sim.V[c]
            /\ rerun.W[c] = sim.W[c]
            /\ rerun.spike_state_matrix[c] = sim.spike_state_matrix[c]
            /\ rerun.refractory_period_matrix[c] = sim.refractory_period_matrix[c]
            /\ rerun.spike_stack[c] = sim.spike_stack[c]

(***************************************************************************)
(* C18: the analysis stages only read their inputs.  The call of           *)
(* HPC_phi_phase_analysis leaves every slot of every cell of the spike log *)
(* it was passed as it was, and the call of HPC_phi_compute_RMQ leaves the *)
(* block of per-cycle phases it was passed as it was.                      *)
(***************************************************************************)
InputsKept ==
    /\ analysis.status = "ready" /\ analysis'.status = "done"
         => \A c \in Cells : \A k \in Slots :
                analysis'.spike_stack[c][k] = analysis.spike_stack[c][k]
    /\ quantifier.status = "idle" /\ quantifier'.status # "idle"
         => analysis'.result.cycle_phi_block = analysis.result.cycle_phi_block

Selected_ == analysis.status = "selected"

\* the fraction q is total / count
IsQuotient(q, total, count) == q[2] > 0 /\ q[1] * count = total * q[2]

C19_SingleElementAndMean ==
    Selected_ =>
        /\ Len(analysis.data) = 1 => analysis.CT = Frac(analysis.data[1], 1)
        /\ analysis.central_tendency_technique \notin {"median", "KDE"}
             => IsQuotient(analysis.CT, Sum(analysis.data), Len(analysis.data))

\* the selector has returned for a single phase that is not 0, under 'KDE'
C19_Witness ==
    /\ Selected_
    /\ Len(analysis.data) = 1
    /\ analysis.data[1] # 0
    /\ analysis.central_tendency_technique = "KDE"

(***************************************************************************)
(* C20: with rest_V < neuron_threshold <= spike_V, the log of a cell whose *)
(* occupancy is below stack_height gains an entry in an iteration exactly  *)
(* when the cell was not spiking at the end of the iteration before and    *)
(* its voltage is at or above the threshold at the end of this one.  The   *)
(* entry is the step index of the iteration and goes to the cell's next    *)
(* free slot; in every other iteration (those of the refractory window     *)
(* among them) the cell's log and occupancy stay as they are.              *)
(***************************************************************************)
ThresholdOrder ==
    cfg.rest_V < cfg.neuron_threshold /\ cfg.neuron_threshold <= cfg.spike_V

\* cell c crosses the threshold in the iteration from s to t
Crossing(s, t, c) == ~s.spike_state_matrix[c] /\ t.V[c] >= cfg.neuron_threshold

\* the log of cell c gains the entry s.step in the iteration from s to t
Gains(s, t, c) ==
    /\ t.stack_topography[c] = s.stack_topography[c] + 1
    /\ t.spike_stack[c][s.stack_topography[c]] = s.step
    /\ \A k \in Slots \ {s.stack_topography[c]} :
           t.spike_stack[c][k] = s.spike_stack[c][k]

\* the log of cell c is the same after the iteration from s to t
Keeps(s, t, c) ==
    /\ t.stack_topography[c] = s.stack_topography[c]
    /\ t.spike_stack[c] = s.spike_stack[c]

LoggedAtCrossings(s, t) ==
    \A c \in Cells :
        (s.status = "running" /\ s.stack_topography[c] < stack_height)
        => IF Crossing(s, t, c) THEN Gains(s, t, c) ELSE Keeps(s, t, c)

C20_LoggedAtCrossings ==
    [][ThresholdOrder =>
           LoggedAtCrossings(sim, sim') /\ LoggedAtCrossings(sim_ARC, sim_ARC')]_vars

(***************************************************************************)
(* C21: with rest_V < neuron_threshold <= spike_V and L the refractory     *)
(* period length, a cell that crosses the threshold at step t has voltage  *)
(* spike_V at each of the steps t+1 .. t+L, voltage rest_V at step t+L+1,  *)
(* and is non-spiking with refractory counter 0 at the end of step t+L+1.  *)
(* Stated step by step: a crossing leaves the cell spiking with counter 1; *)
(* an iteration that starts with the cell spiking and counter k in 1 .. L  *)
(* stores spike_V and leaves the cell spiking with counter k + 1; an       *)
(* iteration that starts with the cell spiking and counter L + 1 stores    *)
(* rest_V and leaves the cell non-spiking with counter 0; a spiking cell   *)
(* has its counter in 1 .. L + 1.  The counter of a spiking cell is thus   *)
(* the number of iterations since the crossing.                            *)
(***************************************************************************)
RefractoryCourse(s, t) ==
    \A c \in Cells :
        (s.status = "running" /\ t.status # "failed")
        => /\ Crossing(s, t, c)
                => t.spike_state_matrix[c] /\ t.refractory_period_matrix[c] = 1
           /\ s.spike_state_matrix[c]
                => s.refractory_period_matrix[c] \in 1..(refractory_period_length + 1)
           /\ (s.spike_state_matrix[c]
               /\ s.refractory_period_matrix[c] <= refractory_period_length)
                => /\ t.V[c] = cfg.spike_V
                   /\ t.spike_state_matrix[c]
                   /\ t.refractory_period_matrix[c] = s.refractory_period_matrix[c] + 1
           /\ (s.spike_state_matrix[c]
               /\ s.refractory_period_matrix[c] = refractory_period_length + 1)
                => /\ t.V[c] = cfg.rest_V
                   /\ ~t.spike_state_matrix[c]
                   /\ t.refractory_period_matrix[c] = 0

C21_RefractoryCourse ==
    [][ThresholdOrder =>
           RefractoryCourse(sim, sim') /\ RefractoryCourse(sim_ARC, sim_ARC')]_vars

\* a cell of a configuration with L = 1 has come out of its refractory
\* window: it has logged a spike, rests at rest_V and its counter is 0, and
\* the other simulation has a cell in the window, clamped at spike_V
C21_Witness ==
    /\ ThresholdOrder
    /\ refractory_period_length = 1
    /\ \E c \in Cells :
         /\ sim.stack_topography[c] >= 1
         /\ ~sim.spike_state_matrix[c]
         /\ sim.refractory_period_matrix[c] = 0
         /\ sim.V[c] = cfg.rest_V
    /\ \E c \in Cells :
         /\ sim_ARC.spike_state_matrix[c]
         /\ sim_ARC.refractory_period_matrix[c] = 2
         /\ sim_ARC.V[c] = cfg.spike_V

(***************************************************************************)
(* C22: at the end of every step a cell's spiking flag is true if and only *)
(* if its voltage at that step is at or above neuron_threshold or the step *)
(* is inside the refractory window after a crossing; with                  *)
(* rest_V < neuron_threshold <= spike_V the flag is true iff the           *)
(* refractory counter is non-zero.  An iteration is inside the window when *)
(* it starts with the cell spiking and its counter in 1 .. L: the flag was *)
(* set by a crossing and at most L iterations have followed it.            *)
(***************************************************************************)
InWindow(s, c) ==
    /\ s.spike_state_matrix[c]
    /\ s.refractory_period_matrix[c] \in 1..refractory_period_length

FlagAtStepEnd(s, t) ==
    \A c \in Cells :
        (s.status = "running" /\ t.status # "failed")
        => (t.spike_state_matrix[c]
              <=> (t.V[c] >= cfg.neuron_threshold \/ InWindow(s, c)))

FlagIffCounter(s) ==
    \A c \in Cells :
        s.status # "failed"
        => (s.spike_state_matrix[c] <=> s.refractory_period_matrix[c] # 0)

\* C22 as stated: the first equivalence in every configuration
C22_FlagIffAboveOrWindow ==
    [][/\ FlagAtStepEnd(sim, sim') /\ FlagAtStepEnd(sim_ARC, sim_ARC')
       /\ ThresholdOrder => FlagIffCounter(sim') /\ FlagIffCounter(sim_ARC')]_vars

\* C22 for rest_V < neuron_threshold <= spike_V: at the end of every step
\* the flag is true iff the voltage is at or above the threshold or the
\* step is inside the refractory window, and iff the counter is non-zero
C22_FlagIffAboveOrWindowOrdered ==
    [][ThresholdOrder =>
           /\ FlagAtStepEnd(sim, sim') /\ FlagAtStepEnd(sim_ARC, sim_ARC')
           /\ FlagIffCounter(sim') /\ FlagIffCounter(sim_ARC')]_vars

\* a step inside the window has ended: the cell is clamped at spike_V with
\* its flag set and counter L + 1 = 2, next to a cell below the threshold
\* with its flag clear
C22_Witness ==
    /\ ThresholdOrder
    /\ refractory_period_length = 1
    /\ sim.status = "running"
    /\ \E c \in Cells :
         /\ sim.spike_state_matrix[c]
         /\ sim.V[c] = cfg.spike_V
         /\ sim.refractory_period_matrix[c] = 2
    /\ \E c \in Cells :
         /\ ~sim.spike_state_matrix[c]
         /\ sim.V[c] < cfg.neuron_threshold

(***************************************************************************)
(* C23: for every spike log, one with a cell whose stack_height slots are  *)
(* all filled included, HPC_phi_phase_analysis determines a truncation     *)
(* index (the first slot where every cell holds 0), every entry of every   *)
(* cell that is not 0 lies in a slot below it, and the call does not fail  *)
(* for want of one.                                                        *)
(***************************************************************************)
C23_TruncationKeepsSpikes ==
    analysis.status = "done" =>
        /\ ZeroSlices(analysis.spike_stack) # {}
        /\ \A c \in Cells : \A k \in Slots :
               analysis.spike_stack[c][k] # 0
               => k < truncation_index(analysis.spike_stack)
        /\ ~(/\ analysis.result.status = "raised"
             /\ analysis.result.error = "UnboundLocalError")

(***************************************************************************)
(* C24: for a reference signal whose phase series has no wrap (no cycle    *)
(* boundary), HPC_phi_phase_analysis returns normally with one cycle: the  *)
(* block has a single cycle, and each cell's entry is the central tendency *)
(* of the phases at all of the cell's logged spikes (0 if it has none).    *)
(* Stated for logs that have a truncation index.                           *)
(***************************************************************************)
NoWrap ==
    Len(cycle_boundary_indices(theta_phase_time_series(analysis.analytic_signal))) = 0

C24_NoWrapSingleCycle ==
    (analysis.status = "done" /\ NoWrap /\ ZeroSlices(analysis.spike_stack) # {})
    => /\ analysis.result.status = "returned"
       /\ C_ = 1
       /\ \A c \in Cells :
              Block[c][0] =
                  IF SpikeIndices(c) = {} THEN Zero
                  ELSE central_tendency_selector(
                           PhasesAt(SpikeIndices(c),
                                    theta_phase_time_series(analysis.analytic_signal)),
                           analysis.central_tendency_technique)

(***************************************************************************)
(* C25: in all six simulation functions every value written to a spike log *)
(* is a step index in 1 .. num_timesteps - 1, so an occupied slot never    *)
(* holds the 0 of an empty slot and a log that is not empty has an entry   *)
(* other than 0 in its first slot.                                         *)
(***************************************************************************)
Occupied(s, c) == {k \in Slots : k < s.stack_topography[c]}

C25_LoggedStepsPositive ==
    \A s \in Sims : \A c \in Cells : \A k \in Occupied(s, c) :
        s.spike_stack[c][k] \in 1..(num_timesteps - 1)

(***************************************************************************)
(* C26: all spikes assigned to the same cycle lie in one wrap-free run of  *)
(* the phase series: for any two logged step indices s < s' of a cell that *)
(* fall in the window of the same cycle, the phase series has no negative  *)
(* first difference at any index k with s <= k < s'.                       *)
(***************************************************************************)
WrapAt(k) ==
    LET omega == theta_omega_time_series(theta_phase_time_series(analysis.analytic_signal))
    IN  k \in DOMAIN omega /\ omega[k] < 0

C26_CycleWrapFree ==
    AnalysisReturned =>
        \A c \in Cells : \A i \in 0..(C_ - 1) :
            \A s \in SpikeIndices(c) \cap Window(i, Boundaries, C_) :
                \A s_ \in SpikeIndices(c) \cap Window(i, Boundaries, C_) :
                    \A k \in s..(s_ - 1) : ~WrapAt(k)

(***************************************************************************)
(* C27: an entry of the block of per-cycle phases equals 0 only if the     *)
(* cell has no spike in that cycle: a cycle whose window holds at least    *)
(* one logged spike of the cell never gets the value 0.                    *)
(***************************************************************************)
C27_ZeroOnlyWithoutSpikes ==
    AnalysisReturned =>
        \A c \in Cells : \A i \in 0..(C_ - 1) :
            Block[c][i] = Zero
            => SpikeIndices(c) \cap Window(i, Boundaries, C_) = {}

(***************************************************************************)
(* C28: with rest_V < neuron_threshold <= spike_V and L the refractory     *)
(* period length, any two consecutive entries of one cell's spike log      *)
(* differ by at least L + 2 steps.                                         *)
(***************************************************************************)
C28_EntriesSpaced ==
    ThresholdOrder =>
        \A s \in Sims : \A c \in Cells : \A k \in Occupied(s, c) :
            (k + 1) \in Occupied(s, c)
            => s.spike_stack[c][k + 1] - s.spike_stack[c][k]
                   >= refractory_period_length + 2

(***************************************************************************)
(* C29: when none of a cell's last N cycle values is 0 and N >= 2, the RMQ *)
(* entry telescopes: RMQ * (N - 1) equals the phase of the earliest        *)
(* selected cycle minus the phase of the latest selected cycle, whatever   *)
(* the values in between.                                                  *)
(***************************************************************************)
C29_Telescopes ==
    RMQReturned =>
        \A c \in Cells :
            (AllPresent(c) /\ Selected >= 2) =>
                /\ ~quantifier.RMQ_array[c].masked
                /\ Frac(quantifier.RMQ_array[c].value[1] * (Selected - 1),
                        quantifier.RMQ_array[c].value[2])
                     = FracSub(Block[c][C_ - Selected], Block[c][C_ - 1])

\* a call over three cycles returned for a cell whose values are all
\* non-sentinel and neither rise nor fall throughout
C29_Witness ==
    /\ RMQReturned
    /\ Selected = 3
    /\ \E c \in Cells :
           /\ AllPresent(c)
           /\ FracLess(Block[c][C_ - 3], Block[c][C_ - 2])
           /\ FracLess(Block[c][C_ - 1], Block[c][C_ - 2])
           /\ Block[c][C_ - 3] # Block[c][C_ - 1]

(***************************************************************************)
(* C30: for a cell whose spiking flag is true at the start of a step, the  *)
(* voltage stored for that step is spike_V when its refractory counter is  *)
(* at most L and rest_V when it is above L, whatever the forcing, the      *)
(* adaptation and the noise of that step are; these influence the voltage  *)
(* only of cells that are not spiking at the start of the step.            *)
(***************************************************************************)
ClampedWhileSpiking(s, t) ==
    \A c \in Cells :
        (s.status = "running" /\ s.spike_state_matrix[c])
        => t.V[c] = IF s.refractory_period_matrix[c] <= refractory_period_length
                    THEN cfg.spike_V ELSE cfg.rest_V

C30_ClampedWhileSpiking ==
    [][ClampedWhileSpiking(sim, sim') /\ ClampedWhileSpiking(sim_ARC, sim_ARC')]_vars

\* a step has stored spike_V for a cell that started it spiking with
\* counter L = 1, while the cell's noise state and adaptation were not 0
C30_Witness ==
    /\ refractory_period_length = 1
    /\ cfg.spike_V # cfg.rest_V
    /\ \E c \in Cells :
         /\ sim_ARC.spike_state_matrix[c]
         /\ sim_ARC.refractory_period_matrix[c] = 2
         /\ sim_ARC.V[c] = cfg.spike_V
         /\ sim_ARC.xi[c] # 0
         /\ sim_ARC.W[c] # 0

====
